---- MODULE Spec2Model ----
(***************************************************************************)
(* Transis util.js: the type classifier `type` and the cycle-safe deep     *)
(* equality `eq` / `arrayEq` / `objectEq` with its module-global recursion *)
(* guard `seenObjects` (seen / mark / unmark / detectRecursion).           *)
(*                                                                         *)
(* JavaScript values are strings: a primitive is named by its value, a     *)
(* reference by the name of a heap cell.  The heap maps every reference to *)
(* the object it denotes.  The evaluation of eq is a stack machine: one    *)
(* frame per active call of eq / arrayEq / objectEq.                       *)
(***************************************************************************)
EXTENDS Integers, Sequences, FiniteSets, TLC

VARIABLES heap, topA, topB, seenObjects, stack, ret, phase, results, nested, calls, topLog

vars == <<heap, topA, topB, seenObjects, stack, ret, phase, results, nested, calls, topLog>>

----------------------------------------------------------------------------
(* Bounds of the explored inputs *)

\* longest array (and arguments list) that the enumerated heaps hold
MaxLen == 2

----------------------------------------------------------------------------
(* Values *)

\* primitives: null, undefined, NaN, the numbers 0 1 2, the strings "" and "a", the booleans
Prims == {"null", "undefined", "NaN", "n0", "n1", "n2", "s", "sa", "true", "false"}

\* the heap cells whose contents the inputs enumerate
NodeRefs == {"R1", "R2", "R3"}

\* references to immutable objects, the same in every heap
LeafRefs == {"NumA", "NumB", "Num2", "NumNaN", "StrA", "BoolT", "BoolF",
             "DateA", "DateB", "DateC", "DateBad",
             "RxA", "RxB", "RxI", "RxM", "RxS", "RxY",
             "FnId", "FnAlways", "FnReenter", "Err"}

Refs == NodeRefs \cup LeafRefs

Val == Prims \cup Refs

\* an ordinary object: the fields every heap cell has
Base == [cls |-> "Object", elems |-> <<>>, props |-> <<>>, prim |-> "none",
         source |-> "", flags |-> <<>>, proto |-> "Object", body |-> "none"]

Prop(k, v, e) == [key |-> k, val |-> v, enum |-> e]

Arr(es) == [Base EXCEPT !.cls = "Array", !.elems = es, !.proto = "Array"]

Obj(ps) == [Base EXCEPT !.props = ps]

Boxed(c, p) == [Base EXCEPT !.cls = c, !.prim = p, !.proto = c]

Rx(src, fl) == [Base EXCEPT !.cls = "RegExp", !.source = src, !.flags = fl, !.proto = "RegExp"]

Fn(b) == [Base EXCEPT !.cls = "Function", !.body = b, !.proto = "Function"]

\* the immutable objects: boxed primitives, dates (prim is the time value),
\* regular expressions (flags in the order they were declared), functions
\* (the bodies of eq methods) and an Error (a class `type` does not know)
LeafHeap ==
  [r \in LeafRefs |->
     CASE r = "NumA" -> Boxed("Number", "n1")
       [] r = "NumB" -> Boxed("Number", "n1")
       [] r = "Num2" -> Boxed("Number", "n2")
       [] r = "NumNaN" -> Boxed("Number", "NaN")
       [] r = "StrA" -> Boxed("String", "sa")
       [] r = "BoolT" -> Boxed("Boolean", "true")
       [] r = "BoolF" -> Boxed("Boolean", "false")
       [] r = "DateA" -> Boxed("Date", "n1")
       [] r = "DateB" -> Boxed("Date", "n1")
       [] r = "DateC" -> Boxed("Date", "n2")
       [] r = "DateBad" -> Boxed("Date", "NaN")
       [] r = "RxA" -> Rx("a", <<"g", "i">>)
       [] r = "RxB" -> Rx("a", <<"i", "g">>)
       [] r = "RxI" -> Rx("a", <<"i">>)
       [] r = "RxM" -> Rx("a", <<"g", "i", "m">>)
       [] r = "RxS" -> Rx("b", <<"g", "i">>)
       [] r = "RxY" -> Rx("a", <<"g", "i", "y">>)
       [] r = "FnId" -> Fn("identity")
       [] r = "FnAlways" -> Fn("always")
       [] r = "FnReenter" -> Fn("reenter")
       [] r = "Err" -> [Base EXCEPT !.cls = "Error", !.proto = "Error"]]

----------------------------------------------------------------------------
(* JavaScript primitives the code relies on *)

\* the object a reference denotes
Cell(h, o) == IF o \in NodeRefs THEN h[o] ELSE LeafHeap[o]

\* a comparison by value, which no two references pass
StrictEqByValue(a, b) == a = b /\ a # "NaN" /\ a \in Prims

\* a === b: the same primitive value or the same reference; NaN equals nothing
StrictEq(a, b) == a = b /\ a # "NaN"

\* ToBoolean, as `a && ...` applies it
Truthy(v) == v \notin {"null", "undefined", "NaN", "n0", "s", "false"}

\* Object.prototype.toString.call(o) without the "[object " and "]"
ToStringTag(h, o) ==
  CASE o \in Refs -> Cell(h, o).cls
    [] o \in {"n0", "n1", "n2", "NaN"} -> "Number"
    [] o \in {"s", "sa"} -> "String"
    [] o \in {"true", "false"} -> "Boolean"
    [] o = "null" -> "Null"
    [] OTHER -> "Undefined"

\* the index of own property `key` in the property list, 0 when there is none
RECURSIVE OwnIndex(_, _, _)
OwnIndex(ps, key, i) ==
  IF i > Len(ps) THEN 0
  ELSE IF ps[i].key = key THEN i
  ELSE OwnIndex(ps, key, i + 1)

\* Object.prototype.hasOwnProperty.call(o, key): enumerable or not
HasOwn(h, o, key) == o \in Refs /\ OwnIndex(Cell(h, o).props, key, 1) > 0

\* whether o.hasOwnProperty resolves to Object.prototype.hasOwnProperty:
\* an object created with a null prototype inherits no such method
InheritsHasOwnProperty(h, o) == Cell(h, o).proto # "null"

\* o[key] for a named key: an own property, else the eq method a RynoObject
\* inherits from RynoObject.prototype, else undefined
Get(h, o, key) ==
  IF o \notin Refs THEN "undefined"
  ELSE IF HasOwn(h, o, key) THEN Cell(h, o).props[OwnIndex(Cell(h, o).props, key, 1)].val
  ELSE IF key = "eq" /\ Cell(h, o).proto = "RynoObject" THEN "FnId"
  ELSE "undefined"

\* Object.keys(o): the own enumerable named keys in insertion order
RECURSIVE EnumKeys(_)
EnumKeys(ps) ==
  IF ps = <<>> THEN <<>>
  ELSE IF Head(ps).enum THEN <<Head(ps).key>> \o EnumKeys(Tail(ps))
  ELSE EnumKeys(Tail(ps))

ObjectKeys(h, o) == EnumKeys(Cell(h, o).props)

\* a flag property of a RegExp: set when the flag was declared, in any position
HasFlag(h, o, f) == \E i \in 1..Len(Cell(h, o).flags) : Cell(h, o).flags[i] = f

\* o.valueOf(): a primitive is its own value, a boxed value or a date unwraps
ValueOf(h, o) == IF o \in Refs THEN Cell(h, o).prim ELSE o

\* typeof v === 'function'
IsFunction(h, v) == v \in Refs /\ Cell(h, v).cls = "Function"

----------------------------------------------------------------------------
(* type *)

\* a classifier that reads the native tag before it tests o !== o
typeTagFirst(h, o) ==
  IF o = "null" THEN "null"
  ELSE IF o = "undefined" THEN "undefined"
  ELSE CASE ToStringTag(h, o) = "Array" -> "array"
         [] ToStringTag(h, o) = "Arguments" -> "arguments"
         [] ToStringTag(h, o) = "Function" -> "function"
         [] ToStringTag(h, o) = "String" -> "string"
         [] ToStringTag(h, o) = "Number" -> "number"
         [] ToStringTag(h, o) = "Boolean" -> "boolean"
         [] ToStringTag(h, o) = "Date" -> "date"
         [] ToStringTag(h, o) = "RegExp" -> "regexp"
         [] ToStringTag(h, o) = "Object" ->
              IF ~InheritsHasOwnProperty(h, o) THEN "TypeError"
              ELSE IF HasOwn(h, o, "callee") THEN "arguments"
              ELSE "object"
         [] OTHER -> IF ~StrictEq(o, o) THEN "NaN" ELSE "unknown"

type(h, o) ==
  IF o = "null" THEN "null"
  ELSE IF o = "undefined" THEN "undefined"
  ELSE IF ~StrictEq(o, o) THEN "NaN"
  ELSE CASE ToStringTag(h, o) = "Array" -> "array"
         [] ToStringTag(h, o) = "Arguments" -> "arguments"
         [] ToStringTag(h, o) = "Function" -> "function"
         [] ToStringTag(h, o) = "String" -> "string"
         [] ToStringTag(h, o) = "Number" -> "number"
         [] ToStringTag(h, o) = "Boolean" -> "boolean"
         [] ToStringTag(h, o) = "Date" -> "date"
         [] ToStringTag(h, o) = "RegExp" -> "regexp"
         [] ToStringTag(h, o) = "Object" ->
              IF ~InheritsHasOwnProperty(h, o) THEN "TypeError"
              ELSE IF HasOwn(h, o, "callee") THEN "arguments"
              ELSE "object"
         [] OTHER -> "unknown"

\* a capability test that looks for eq among the own properties only
IsDelegateOwnEq(h, a) ==
  Truthy(a) /\ Truthy(Get(h, a, "objectId")) /\ HasOwn(h, a, "eq")
    /\ IsFunction(h, Get(h, a, "eq"))

\* the first operand is a Transis.Object: a truthy objectId and a function eq
IsDelegate(h, a) ==
  Truthy(a) /\ Truthy(Get(h, a, "objectId")) /\ IsFunction(h, Get(h, a, "eq"))

----------------------------------------------------------------------------
(* The inputs: a heap and the two operands of a top-level eq call *)

SeqsUpTo(S, n) == UNION {[1..k -> S] : k \in 0..n}

Keys == {"k1", "k2"}

\* the own enumerable properties of an object literal with at most two keys,
\* in either insertion order
PropLists(E) ==
  {<<>>}
  \cup {<<Prop(k, v, TRUE)>> : k \in Keys, v \in E}
  \cup UNION {{<<Prop(k, v, TRUE), Prop(l, w, TRUE)>> :
                   l \in Keys \ {k}, v \in E, w \in E} : k \in Keys}

\* arrays of at most n elements and object literals over the values E
PlainShapes(E, n) ==
  {Arr(es) : es \in SeqsUpTo(E, n)} \cup {Obj(ps) : ps \in PropLists(E)}

HeapOf(s1, s2, s3) ==
  [r \in NodeRefs |-> IF r = "R1" THEN s1 ELSE IF r = "R2" THEN s2 ELSE s3]

Input(h, a, b) == [h |-> h, a |-> a, b |-> b]

\* two cells that refer to themselves and to each other in every way
GraphInputs ==
  {Input(HeapOf(s1, s2, Arr(<<>>)), "R1", "R2") :
     s1 \in PlainShapes({"n1", "NaN", "R1", "R2"}, MaxLen),
     s2 \in PlainShapes({"n1", "NaN", "R1", "R2"}, MaxLen)}

\* three arrays, one element shorter, that refer to each other
RingShapes == {Arr(es) : es \in SeqsUpTo({"n1", "R1", "R2", "R3"}, MaxLen - 1)}

RingInputs ==
  {Input(HeapOf(s1, s2, s3), "R1", "R2") :
     s1 \in RingShapes, s2 \in RingShapes, s3 \in RingShapes}

\* the heaps of the test "handles complex recursive objects": a is R1, b is
\* R2, c is R3; self, other and delta are k1, k2 and k3
FixtureHeaps ==
  LET a0 == <<Prop("k1", "R1", TRUE), Prop("k2", "R2", TRUE)>>
      b0 == <<Prop("k1", "R2", TRUE), Prop("k2", "R1", TRUE)>>
      c0 == <<Prop("k2", "R3", TRUE), Prop("k1", "R3", TRUE)>>
      d(v) == <<Prop("k3", v, TRUE)>>
  IN {HeapOf(Obj(a0), Obj(b0), Obj(c0)),
      HeapOf(Obj(a0 \o d("R1")), Obj(b0), Obj(c0 \o d("R1"))),
      HeapOf(Obj(a0 \o d("R1")), Obj(b0), Obj(c0 \o d("n2"))),
      HeapOf(Obj(a0 \o d("n2")), Obj(b0), Obj(c0 \o d("n2"))),
      HeapOf(Obj(a0 \o d("n2")), Obj(b0 \o d("n2")), Obj(c0 \o d("n2")))}

FixtureInputs ==
  {Input(h, a, b) : h \in FixtureHeaps, a \in NodeRefs, b \in NodeRefs}

\* objects that are not object literals: arguments lists, an object with a
\* callee property, an object without a prototype, an object with a
\* non-enumerable property, an array with a named property, and objects with
\* an objectId and an eq (RynoObject instances and look-alikes)
Args(es) == [Base EXCEPT !.cls = "Arguments", !.elems = es]

Ryno(ps) == [Obj(<<Prop("objectId", "n1", FALSE)>> \o ps) EXCEPT !.proto = "RynoObject"]

SpecialShapes ==
  {Args(<<>>), Args(<<"n1">>),
   Obj(<<Prop("callee", "n1", TRUE)>>),
   [Obj(<<>>) EXCEPT !.proto = "null"],
   Obj(<<Prop("k1", "n1", FALSE), Prop("k2", "n1", TRUE)>>),
   [Arr(<<"n1">>) EXCEPT !.props = <<Prop("k1", "sa", TRUE)>>],
   Ryno(<<>>),
   Ryno(<<Prop("eq", "FnAlways", FALSE)>>),
   Ryno(<<Prop("eq", "FnReenter", FALSE)>>),
   Ryno(<<Prop("eq", "n1", TRUE)>>),
   Obj(<<Prop("objectId", "n0", TRUE), Prop("eq", "FnAlways", TRUE)>>)}

ContainerShapes ==
  LET E == {"R3", "n1", "n2", "undefined"}
  IN {Arr(<<>>)}
     \cup {Arr(<<e>>) : e \in E}
     \cup {Arr(<<e, f>>) : e \in E, f \in {"n1", "n2"}}
     \cup {Obj(<<Prop(k, e, TRUE)>>) : k \in Keys, e \in E}

\* an eq method that calls eq(R1, R2) again does not return when R1 itself
\* delegates to it
Reenters(s) == \E i \in 1..Len(s.props) : s.props[i].val = "FnReenter"

SpecialInputs ==
  {Input(HeapOf(s1, s2, s3), "R1", "R2") :
     s1 \in {s \in ContainerShapes \cup SpecialShapes : ~Reenters(s)},
     s2 \in ContainerShapes \cup SpecialShapes,
     s3 \in SpecialShapes}

\* a special object as the first operand, and as both operands
FirstInputs ==
  {Input(HeapOf(s1, s2, s3), "R3", b) :
     s1 \in {Arr(<<"R3", "n1">>), Arr(<<"n1", "n1">>), Obj(<<>>)},
     s2 \in {Arr(<<"n1", "n2">>), Arr(<<"n1", "n1">>), Obj(<<>>)},
     s3 \in SpecialShapes,
     b \in {"R1", "R2", "R3", "n1"}}

SelfInputs ==
  {Input(HeapOf(s1, s2, Arr(<<"R2">>)), a, a) :
     s1 \in PlainShapes({"NaN", "R1", "R2"}, 1),
     s2 \in PlainShapes({"NaN", "R2", "R3"}, 1),
     a \in NodeRefs}

LeafInputs ==
  {Input(HeapOf(Arr(<<"n1">>), Obj(<<Prop("k1", "n1", TRUE)>>), Args(<<>>)), a, b) :
     a \in Val, b \in Val}

\* three values for eq(a, b), eq(b, c) and eq(a, c): arrays and objects that
\* hold NaN, a number, themselves or each other, and an object with a
\* non-enumerable property
TripleShapes ==
  {Arr(es) : es \in SeqsUpTo({"NaN", "R1", "R2", "R3"}, 1)}
  \cup {Obj(<<Prop(k, v, TRUE)>>) : k \in Keys, v \in {"n1", "R1", "R3"}}
  \cup {Obj(<<>>), Obj(<<Prop("k1", "n1", FALSE), Prop("k2", "n1", TRUE)>>)}

TripleHeaps ==
  {HeapOf(s1, s2, s3) : s1 \in TripleShapes, s2 \in TripleShapes, s3 \in TripleShapes}

Inputs ==
  GraphInputs \cup RingInputs \cup FixtureInputs \cup SpecialInputs
  \cup FirstInputs \cup SelfInputs \cup LeafInputs

----------------------------------------------------------------------------
(* seenObjects *)

seen(s, o1, o2) == \E i \in 1..Len(s) : s[i][1] = o1 /\ s[i][2] = o2

\* a guard that grows at its front
markFront(s, o1, o2) == <<<<o1, o2>>>> \o s

mark(s, o1, o2) == Append(s, <<o1, o2>>)

\* the index of the first entry for the pair, 0 when there is none
RECURSIVE FirstIndex(_, _, _, _)
FirstIndex(s, o1, o2, i) ==
  IF i > Len(s) THEN 0
  ELSE IF s[i][1] = o1 /\ s[i][2] = o2 THEN i
  ELSE FirstIndex(s, o1, o2, i + 1)

\* splice(i, 1) at the first entry for the pair
unmark(s, o1, o2) ==
  LET i == FirstIndex(s, o1, o2, 1)
  IN IF i = 0 THEN s ELSE SubSeq(s, 1, i - 1) \o SubSeq(s, i + 1, Len(s))

----------------------------------------------------------------------------
(* The call stack *)

\* an active call of fn(a, b): i is the loop index, r the local result, log
\* the values the recursive eq calls of its loop returned, origin who called
Frame(fn, a, b, origin) ==
  [fn |-> fn, a |-> a, b |-> b, pc |-> "start", i |-> 1, r |-> "true",
   log |-> <<>>, origin |-> origin]

Top == stack[Len(stack)]

Running == phase # "idle" /\ stack # <<>>

Bool(p) == IF p THEN "true" ELSE "false"

\* the active call returns v (or throws, v = "throw") to its caller; a
\* top-level call hands v to the caller of eq
Return(v, lg) ==
  /\ stack' = SubSeq(stack, 1, Len(stack) - 1)
  /\ ret' = v
  /\ results' = IF Len(stack) = 1 THEN Append(results, v) ELSE results
  /\ topLog' = IF Len(stack) = 1 THEN lg ELSE topLog
  /\ nested' = IF Top.origin = "reentrant"
               THEN nested \cup {<<Top.a, Top.b, v>>} ELSE nested

\* the active call goes on as frame f
Become(f) ==
  /\ stack' = [stack EXCEPT ![Len(stack)] = f]
  /\ UNCHANGED <<results, topLog, nested>>

\* a.length of an array
Length(h, o) == Len(Cell(h, o).elems)

IsArray(h, o) == o \in Refs /\ Cell(h, o).cls = "Array"

----------------------------------------------------------------------------
(* eq *)

InEq == Running /\ Top.fn = "eq" /\ ret = "none"

\* identical objects are equal
EqIdentical ==
  /\ InEq
  /\ StrictEq(Top.a, Top.b)
  /\ Return("true", <<>>)
  /\ UNCHANGED <<heap, topA, topB, seenObjects, phase, calls>>

\* the body of a's eq method
EqMethod(h, a) == Cell(h, Get(h, a, "eq")).body

\* RynoObject.prototype.eq
RynoObjectEq(this, other) == StrictEq(this, other)

\* a.eq(b) for a method that returns at once: the inherited identity test, or
\* an override that answers true
EqDelegate ==
  /\ InEq
  /\ ~StrictEq(Top.a, Top.b)
  /\ IsDelegate(heap, Top.a)
  /\ EqMethod(heap, Top.a) \in {"identity", "always"}
  /\ calls' = Append(calls, <<Top.a, Top.b>>)
  /\ Return(IF EqMethod(heap, Top.a) = "identity"
            THEN Bool(RynoObjectEq(Top.a, Top.b)) ELSE "true", <<>>)
  /\ UNCHANGED <<heap, topA, topB, seenObjects, phase>>

\* a.eq(b) for an override that compares two other objects with eq(R1, R2)
EqDelegateReenter ==
  /\ InEq
  /\ ~StrictEq(Top.a, Top.b)
  /\ IsDelegate(heap, Top.a)
  /\ EqMethod(heap, Top.a) = "reenter"
  /\ calls' = Append(calls, <<Top.a, Top.b>>)
  /\ Become(Frame("eq", "R1", "R2", "reentrant"))
  /\ UNCHANGED <<heap, topA, topB, seenObjects, phase, ret>>

Classified ==
  /\ InEq
  /\ ~StrictEq(Top.a, Top.b)
  /\ ~IsDelegate(heap, Top.a)

\* type(a) or type(b) throws
EqTypeError ==
  /\ Classified
  /\ "TypeError" \in {type(heap, Top.a), type(heap, Top.b)}
  /\ Return("throw", <<>>)
  /\ UNCHANGED <<heap, topA, topB, seenObjects, phase, calls>>

SameType(t) ==
  /\ Classified
  /\ "TypeError" \notin {type(heap, Top.a), type(heap, Top.b)}
  /\ type(heap, Top.a) = type(heap, Top.b)
  /\ type(heap, Top.a) \in t

\* native objects that are not of the same type are not equal
EqTypeMismatch ==
  /\ Classified
  /\ "TypeError" \notin {type(heap, Top.a), type(heap, Top.b)}
  /\ type(heap, Top.a) # type(heap, Top.b)
  /\ Return("false", <<>>)
  /\ UNCHANGED <<heap, topA, topB, seenObjects, phase, calls>>

EqValueOf ==
  /\ SameType({"boolean", "string", "date", "number"})
  /\ Return(Bool(StrictEq(ValueOf(heap, Top.a), ValueOf(heap, Top.b))), <<>>)
  /\ UNCHANGED <<heap, topA, topB, seenObjects, phase, calls>>

RegexpEq(h, a, b) ==
  /\ Cell(h, a).source = Cell(h, b).source
  /\ HasFlag(h, a, "g") = HasFlag(h, b, "g")
  /\ HasFlag(h, a, "m") = HasFlag(h, b, "m")
  /\ HasFlag(h, a, "i") = HasFlag(h, b, "i")

EqRegexp ==
  /\ SameType({"regexp"})
  /\ Return(Bool(RegexpEq(heap, Top.a, Top.b)), <<>>)
  /\ UNCHANGED <<heap, topA, topB, seenObjects, phase, calls>>

EqArray ==
  /\ SameType({"array"})
  /\ Become([Top EXCEPT !.fn = "arrayEq"])
  /\ UNCHANGED <<heap, topA, topB, seenObjects, phase, calls, ret>>

EqObject ==
  /\ SameType({"object"})
  /\ Become([Top EXCEPT !.fn = "objectEq"])
  /\ UNCHANGED <<heap, topA, topB, seenObjects, phase, calls, ret>>

EqDefault ==
  /\ SameType({"null", "undefined", "NaN", "arguments", "function", "unknown"})
  /\ Return("false", <<>>)
  /\ UNCHANGED <<heap, topA, topB, seenObjects, phase, calls>>

----------------------------------------------------------------------------
(* arrayEq, objectEq and detectRecursion *)

InComposite(pc) ==
  Running /\ Top.fn \in {"arrayEq", "objectEq"} /\ Top.pc = pc

\* a loop over an array that stops one element early
CountShort(h, f) ==
  IF f.fn = "arrayEq"
  THEN (IF Length(h, f.a) > 0 THEN Length(h, f.a) - 1 ELSE 0)
  ELSE Len(ObjectKeys(h, f.a))

\* the number of things the loop of the active call visits
Count(h, f) ==
  IF f.fn = "arrayEq" THEN Length(h, f.a) ELSE Len(ObjectKeys(h, f.a))

\* objectEq without the comparison of the numbers of keys
SameCountArraysOnly(h, f) ==
  f.fn = "arrayEq"
    => IsArray(h, f.a) /\ IsArray(h, f.b) /\ Length(h, f.a) = Length(h, f.b)

\* the check before r = true
SameCount(h, f) ==
  IF f.fn = "arrayEq"
  THEN IsArray(h, f.a) /\ IsArray(h, f.b) /\ Length(h, f.a) = Length(h, f.b)
  ELSE Len(ObjectKeys(h, f.a)) = Len(ObjectKeys(h, f.b))

ArrayEqLength ==
  /\ InComposite("start")
  /\ Top.fn = "arrayEq"
  /\ ~SameCount(heap, Top)
  /\ Return("false", <<>>)
  /\ UNCHANGED <<heap, topA, topB, seenObjects, phase, calls>>

ObjectEqLength ==
  /\ InComposite("start")
  /\ Top.fn = "objectEq"
  /\ ~SameCount(heap, Top)
  /\ Return("false", <<>>)
  /\ UNCHANGED <<heap, topA, topB, seenObjects, phase, calls>>

\* detectRecursion finds the pair and does not call f: r is still true
DetectRecursionSeen ==
  /\ InComposite("start")
  /\ SameCount(heap, Top)
  /\ seen(seenObjects, Top.a, Top.b)
  /\ Return(Top.r, <<>>)
  /\ UNCHANGED <<heap, topA, topB, seenObjects, phase, calls>>

\* detectRecursion marks the pair and calls f
DetectRecursionMark ==
  /\ InComposite("start")
  /\ SameCount(heap, Top)
  /\ ~seen(seenObjects, Top.a, Top.b)
  /\ seenObjects' = mark(seenObjects, Top.a, Top.b)
  /\ Become([Top EXCEPT !.pc = "loop"])
  /\ UNCHANGED <<heap, topA, topB, phase, calls, ret>>

\* the caller's frame while eq(x, y) runs on top of it
Call2(x, y) ==
  /\ stack' = [stack EXCEPT ![Len(stack)].pc = "wait"]
                 \o <<Frame("eq", x, y, "child")>>
  /\ UNCHANGED <<results, topLog, nested>>

ArrayEqLoop ==
  /\ InComposite("loop")
  /\ Top.fn = "arrayEq"
  /\ Top.i <= Count(heap, Top)
  /\ Call2(Cell(heap, Top.a).elems[Top.i], Cell(heap, Top.b).elems[Top.i])
  /\ UNCHANGED <<heap, topA, topB, seenObjects, phase, calls, ret>>

ObjectEqLoop ==
  /\ InComposite("loop")
  /\ Top.fn = "objectEq"
  /\ Top.i <= Count(heap, Top)
  /\ InheritsHasOwnProperty(heap, Top.b)
  /\ HasOwn(heap, Top.b, ObjectKeys(heap, Top.a)[Top.i])
  /\ Call2(Get(heap, Top.a, ObjectKeys(heap, Top.a)[Top.i]),
           Get(heap, Top.b, ObjectKeys(heap, Top.a)[Top.i]))
  /\ UNCHANGED <<heap, topA, topB, seenObjects, phase, calls, ret>>

\* b has no such key: r = false, break, and the finally clause unmarks
ObjectEqMissingKey ==
  /\ InComposite("loop")
  /\ Top.fn = "objectEq"
  /\ Top.i <= Count(heap, Top)
  /\ InheritsHasOwnProperty(heap, Top.b)
  /\ ~HasOwn(heap, Top.b, ObjectKeys(heap, Top.a)[Top.i])
  /\ seenObjects' = unmark(seenObjects, Top.a, Top.b)
  /\ Return("false", Top.log)
  /\ UNCHANGED <<heap, topA, topB, phase, calls>>

\* the loop ran to its end: the finally clause unmarks and r is returned
LoopEnd ==
  /\ InComposite("loop")
  /\ Top.i > Count(heap, Top)
  /\ seenObjects' = unmark(seenObjects, Top.a, Top.b)
  /\ Return(Top.r, Top.log)
  /\ UNCHANGED <<heap, topA, topB, phase, calls>>

\* a loop that does not move to the next index
LoopContinueNoAdvance ==
  /\ InComposite("wait")
  /\ ret = "true"
  /\ ret' = "none"
  /\ Become([Top EXCEPT !.pc = "loop"])
  /\ UNCHANGED <<heap, topA, topB, seenObjects, phase, calls>>

\* eq returned true: next index
LoopContinue ==
  /\ InComposite("wait")
  /\ ret = "true"
  /\ ret' = "none"
  /\ Become([Top EXCEPT !.pc = "loop", !.i = @ + 1, !.log = Append(@, "true")])
  /\ UNCHANGED <<heap, topA, topB, seenObjects, phase, calls>>

\* eq returned false: r = false, break, and the finally clause unmarks
LoopBreak ==
  /\ InComposite("wait")
  /\ ret = "false"
  /\ seenObjects' = unmark(seenObjects, Top.a, Top.b)
  /\ Return("false", Append(Top.log, "false"))
  /\ UNCHANGED <<heap, topA, topB, phase, calls>>

\* an exception that leaves detectRecursion without the finally clause
DetectRecursionNoFinally ==
  /\ InComposite("wait")
  /\ ret = "throw"
  /\ Return("throw", Top.log)
  /\ UNCHANGED <<heap, topA, topB, seenObjects, phase, calls>>

\* eq threw: the finally clause unmarks and the exception goes on
DetectRecursionFinally ==
  /\ InComposite("wait")
  /\ ret = "throw"
  /\ seenObjects' = unmark(seenObjects, Top.a, Top.b)
  /\ Return("throw", Top.log)
  /\ UNCHANGED <<heap, topA, topB, phase, calls>>

----------------------------------------------------------------------------
(* The caller of eq: eq(a, b), then eq(b, a), on each input *)

EmptyHeap == HeapOf(Arr(<<>>), Arr(<<>>), Arr(<<>>))

Init ==
  /\ heap = EmptyHeap
  /\ topA = "undefined"
  /\ topB = "undefined"
  /\ seenObjects = <<>>
  /\ stack = <<>>
  /\ ret = "none"
  /\ phase = "idle"
  /\ results = <<>>
  /\ nested = {}
  /\ calls = <<>>
  /\ topLog = <<>>

CallEq ==
  /\ phase = "idle"
  /\ \E inp \in Inputs :
       /\ heap' = inp.h
       /\ topA' = inp.a
       /\ topB' = inp.b
       /\ stack' = <<Frame("eq", inp.a, inp.b, "top")>>
  /\ phase' = "run1"
  /\ UNCHANGED <<seenObjects, ret, results, nested, calls, topLog>>

CallEqSwapped ==
  /\ phase = "run1"
  /\ stack = <<>>
  /\ stack' = <<Frame("eq", topB, topA, "top")>>
  /\ phase' = "run2"
  /\ ret' = "none"
  /\ nested' = {}
  /\ calls' = <<>>
  /\ topLog' = <<>>
  /\ UNCHANGED <<heap, topA, topB, seenObjects, results>>

\* eq(a, b) on three values a, b and c
CallEqTriple ==
  /\ phase = "idle"
  /\ heap' \in TripleHeaps
  /\ topA' = "R1"
  /\ topB' = "R2"
  /\ stack' = <<Frame("eq", "R1", "R2", "top")>>
  /\ phase' = "t1"
  /\ UNCHANGED <<seenObjects, ret, results, nested, calls, topLog>>

\* then eq(b, c)
CallEqSecond ==
  /\ phase = "t1"
  /\ stack = <<>>
  /\ topA' = "R2"
  /\ topB' = "R3"
  /\ stack' = <<Frame("eq", "R2", "R3", "top")>>
  /\ phase' = "t2"
  /\ ret' = "none"
  /\ nested' = {}
  /\ calls' = <<>>
  /\ topLog' = <<>>
  /\ UNCHANGED <<heap, seenObjects, results>>

\* then eq(a, c)
CallEqThird ==
  /\ phase = "t2"
  /\ stack = <<>>
  /\ topA' = "R1"
  /\ topB' = "R3"
  /\ stack' = <<Frame("eq", "R1", "R3", "top")>>
  /\ phase' = "t3"
  /\ ret' = "none"
  /\ nested' = {}
  /\ calls' = <<>>
  /\ topLog' = <<>>
  /\ UNCHANGED <<heap, seenObjects, results>>

\* the caller drops the values; seenObjects is the module's and stays
Forget ==
  /\ phase \in {"run2", "t3"}
  /\ stack = <<>>
  /\ heap' = EmptyHeap
  /\ topA' = "undefined"
  /\ topB' = "undefined"
  /\ ret' = "none"
  /\ phase' = "idle"
  /\ results' = <<>>
  /\ nested' = {}
  /\ calls' = <<>>
  /\ topLog' = <<>>
  /\ UNCHANGED <<seenObjects, stack>>

Next ==
  \/ CallEq \/ CallEqSwapped \/ Forget
  \/ CallEqTriple \/ CallEqSecond \/ CallEqThird
  \/ EqIdentical \/ EqDelegate \/ EqDelegateReenter \/ EqTypeError
  \/ EqTypeMismatch \/ EqValueOf \/ EqRegexp \/ EqArray \/ EqObject \/ EqDefault
  \/ ArrayEqLength \/ ObjectEqLength \/ DetectRecursionSeen \/ DetectRecursionMark
  \/ ArrayEqLoop \/ ObjectEqLoop \/ ObjectEqMissingKey \/ LoopEnd
  \/ LoopContinue \/ LoopBreak \/ DetectRecursionFinally

Spec == Init /\ [][Next]_vars

----------------------------------------------------------------------------
(* Vocabulary of the properties *)

\* a top-level call has returned (or thrown) and the next has not begun
Done == phase # "idle" /\ stack = <<>>

\* the operands of the top-level call that is running or has just returned
CurA == IF phase = "run2" THEN topB ELSE topA

CurB == IF phase = "run2" THEN topA ELSE topB

\* what the last top-level call returned
Result == results[Len(results)]

\* the eq method of an object: its own eq property, else the one a RynoObject
\* inherits
Method(h, v) ==
  IF \E i \in 1..Len(h[v].props) : h[v].props[i].key = "eq"
  THEN h[v].props[CHOOSE i \in 1..Len(h[v].props) : h[v].props[i].key = "eq"].val
  ELSE IF h[v].proto = "RynoObject" THEN "FnId" ELSE "undefined"

\* the value exposes an identity token and a comparison method
Capable(h, v) ==
  /\ v \in NodeRefs
  /\ \E i \in 1..Len(h[v].props) :
        h[v].props[i].key = "objectId" /\ h[v].props[i].val \in {"n1", "n2", "sa", "true"}
  /\ Method(h, v) \in {"FnId", "FnAlways", "FnReenter"}

\* the values an object holds: its elements and its property values (for the
\* method that calls eq(R1, R2), the two objects it names)
Held(h, o) ==
  IF o \in NodeRefs
  THEN {h[o].elems[i] : i \in 1..Len(h[o].elems)}
       \cup {h[o].props[i].val : i \in 1..Len(h[o].props)}
  ELSE IF o = "FnReenter" THEN {"R1", "R2"}
  ELSE {}

RECURSIVE Reach(_, _)
Reach(h, S) ==
  LET T == S \cup UNION {Held(h, o) : o \in S}
  IN IF T = S THEN S ELSE Reach(h, T)

\* an array without named properties
PlainArray(h, o) == o \in NodeRefs /\ h[o].cls = "Array" /\ h[o].props = <<>>

\* an object literal: its prototype is Object.prototype and its properties
\* are enumerable, none of them the callee marker
PlainObject(h, o) ==
  /\ o \in NodeRefs
  /\ h[o].cls = "Object"
  /\ h[o].proto = "Object"
  /\ \A i \in 1..Len(h[o].props) :
        h[o].props[i].enum /\ h[o].props[i].key # "callee"

\* a graph built from arrays, object literals and primitives only
PlainGraph(h, a, b) ==
  \A v \in Reach(h, {a, b}) : v \in Prims \/ PlainArray(h, v) \/ PlainObject(h, v)

OwnKeys(h, o) == {h[o].props[i].key : i \in 1..Len(h[o].props)}

\* the condition a bisimulation R puts on a pair it relates
Related(h, R, x, y) ==
  \/ x \in Refs /\ x = y
  \/ x \in Prims /\ y \in Prims /\ x = y /\ x # "NaN"
  \/ /\ PlainArray(h, x) /\ PlainArray(h, y)
     /\ Len(h[x].elems) = Len(h[y].elems)
     /\ \A i \in 1..Len(h[x].elems) : <<h[x].elems[i], h[y].elems[i]>> \in R
  \/ /\ PlainObject(h, x) /\ PlainObject(h, y)
     /\ OwnKeys(h, x) = OwnKeys(h, y)
     /\ \A i \in 1..Len(h[x].props) :
          \E j \in 1..Len(h[y].props) :
             /\ h[y].props[j].key = h[x].props[i].key
             /\ <<h[x].props[i].val, h[y].props[j].val>> \in R

\* the greatest bisimulation inside R
RECURSIVE Greatest(_, _)
Greatest(h, R) ==
  LET S == {p \in R : Related(h, R, p[1], p[2])}
  IN IF S = R THEN R ELSE Greatest(h, S)

Bisimilar(h, a, b) ==
  <<a, b>> \in Greatest(h, Reach(h, {a}) \X Reach(h, {b}))

----------------------------------------------------------------------------
(* C1 *)

\* C1: on a graph built from arrays, object literals and primitives, a
\* top-level eq(a, b) returns true exactly when (a, b) lies in the greatest
\* bisimulation: same reference, equal primitives, arrays of equal length with
\* related elements, or objects with the same own keys and related values.
EqIsBisimilarity ==
  (Done /\ PlainGraph(heap, CurA, CurB))
    => (Result = "true" <=> Bisimilar(heap, CurA, CurB))

\* two distinct cyclic graphs compared equal
EqIsBisimilarityWitness ==
  /\ Done
  /\ PlainGraph(heap, CurA, CurB)
  /\ CurA # CurB
  /\ CurA \in Reach(heap, Held(heap, CurA))
  /\ CurB \in Reach(heap, Held(heap, CurB))
  /\ Result = "true"

----------------------------------------------------------------------------
(* C2 *)

\* the arrays and objects the running top-level call can reach
Composites ==
  {v \in Reach(heap, {CurA, CurB}) \cap NodeRefs : heap[v].cls \in {"Array", "Object"}}

\* the arrayEq / objectEq calls whose loop has begun
InFlight ==
  {i \in 1..Len(stack) :
     stack[i].fn \in {"arrayEq", "objectEq"} /\ stack[i].pc \in {"loop", "wait"}}

NoPairTwice ==
  \A i \in 1..Len(seenObjects) : \A j \in 1..Len(seenObjects) :
     seenObjects[i] = seenObjects[j] => i = j

ChainBounded ==
  /\ NoPairTwice
  /\ Cardinality(InFlight) <= Cardinality(Composites \X Composites)
  /\ Len(seenObjects) <= Cardinality(Composites \X Composites)

\* how far a frame has got: an eq call that a method made comes after the
\* eq call that invoked the method, the entry of arrayEq / objectEq after
\* that, then the loop index by index, and within one index the call of eq,
\* then its return
Rank(f, returned) ==
  IF f.fn = "eq" THEN (IF f.origin = "reentrant" THEN 1 ELSE 0)
  ELSE IF f.pc = "start" THEN 2
  ELSE IF f.pc = "loop" THEN 3 * f.i
  ELSE 3 * f.i + 1 + (IF returned THEN 1 ELSE 0)

Progress(st, rv) ==
  [k \in 1..Len(st) |-> Rank(st[k], k = Len(st) /\ rv # "none")]

\* s comes before t in the lexicographic order
Before(s, t) ==
  \E k \in 1..Len(t) :
     /\ \A j \in 1..(k - 1) : j <= Len(s) /\ s[j] = t[j]
     /\ k > Len(s) \/ s[k] < t[k]

\* C2: every top-level eq call ends after finitely many steps, whatever the
\* cycles of the graph: a call that has not returned can take a step, every
\* step moves it forward in a finite order, no pair is in the guard twice,
\* and the nested comparisons in progress never outnumber the ordered pairs
\* of reachable arrays and objects.
EqTerminates ==
  [][Running =>
       /\ ENABLED Next
       /\ ChainBounded'
       /\ stack' # <<>> => Before(Progress(stack, ret), Progress(stack', ret'))]_vars

\* a call on a cyclic graph found a pair in the guard and ended
EqTerminatesWitness ==
  /\ Done
  /\ CurA # CurB
  /\ CurA \in Reach(heap, Held(heap, CurA))
  /\ PlainGraph(heap, CurA, CurB)
  /\ Len(topLog) = 2
  /\ Result = "true"

----------------------------------------------------------------------------
(* C3 *)

\* C3: an eq call that an eq method makes while a top-level eq call is in
\* progress returns what the same call returns at top level, where it starts
\* with an empty guard.
GuardIsPrivate ==
  Done => \A n \in nested : (n[1] = CurA /\ n[2] = CurB) => n[3] = Result

----------------------------------------------------------------------------
(* C4 *)

\* C4 as stated: eq(x, x) returns true for every value x.
EqReflexive == (Done /\ CurA = CurB) => Result = "true"

\* C4: eq(x, x), top-level or nested, returns true at once for every value x
\* but NaN: no eq method is invoked, nothing is classified and the guard is
\* not touched.
EqReflexiveButNaN ==
  [][(InEq /\ Top.a = Top.b /\ Top.a # "NaN")
       => /\ ret' = "true"
          /\ stack' = SubSeq(stack, 1, Len(stack) - 1)
          /\ calls' = calls
          /\ seenObjects' = seenObjects]_vars

\* eq(x, x) returned true for an x that has an eq method
EqReflexiveWitness ==
  Done /\ CurA = CurB /\ Capable(heap, CurA) /\ Result = "true" /\ calls = <<>>

----------------------------------------------------------------------------
(* C5 *)

\* no value with an identity token and a comparison method can be reached
NoDelegates == \A v \in Reach(heap, {topA, topB}) : ~Capable(heap, v)

\* C5: where no operand can delegate and both calls return, eq(a, b) and
\* eq(b, a) return the same boolean.
EqSymmetric ==
  (/\ phase = "run2"
   /\ stack = <<>>
   /\ NoDelegates
   /\ "throw" \notin {results[1], results[2]})
    => results[1] = results[2]

----------------------------------------------------------------------------
(* C6 *)

\* C6: type and eq return a result for every input and never throw.
NeverThrows == ret # "throw"

----------------------------------------------------------------------------
(* C7 *)

\* C7: two distinct values that are both arrays, or both arguments lists, are
\* equal exactly when their lengths agree and eq returned true for the
\* elements at every index.
ListsEqualByElements ==
  (/\ Done
   /\ CurA # CurB
   /\ ~Capable(heap, CurA)
   /\ type(heap, CurA) \in {"array", "arguments"}
   /\ type(heap, CurB) = type(heap, CurA))
    => (Result = "true"
          <=> /\ Len(heap[CurA].elems) = Len(heap[CurB].elems)
              /\ Len(topLog) = Len(heap[CurA].elems)
              /\ \A i \in 1..Len(topLog) : topLog[i] = "true")

----------------------------------------------------------------------------
(* C8 *)

\* C8 as stated: a value with an identity token and a comparison method is
\* never an operand of arrayEq or objectEq, whichever operand it is.
NeverStructural ==
  \A i \in 1..Len(stack) :
     stack[i].fn \in {"arrayEq", "objectEq"}
       => ~Capable(heap, stack[i].a) /\ ~Capable(heap, stack[i].b)

\* what the eq method of a returns for a different argument
MethodReturns(h, a, v) ==
  CASE Method(h, a) = "FnId" -> v = "false"
    [] Method(h, a) = "FnAlways" -> v = "true"
    [] OTHER -> <<"R1", "R2", v>> \in nested

\* C8: a value with an identity token and a comparison method is never the
\* first operand of arrayEq or objectEq, and eq(a, b) with such an a and a
\* different b invokes a.eq(b) first and returns what it returns; a method
\* that calls nothing is invoked once.
DelegatesFromFirstOperand ==
  /\ \A i \in 1..Len(stack) :
        stack[i].fn \in {"arrayEq", "objectEq"} => ~Capable(heap, stack[i].a)
  /\ (Done /\ CurA # CurB /\ Capable(heap, CurA))
       => /\ calls # <<>>
          /\ calls[1] = <<CurA, CurB>>
          /\ Method(heap, CurA) # "FnReenter" => Len(calls) = 1
          /\ MethodReturns(heap, CurA, Result)

\* a.eq(b) answered true for two objects that differ in structure
DelegatesFromFirstOperandWitness ==
  /\ Done
  /\ CurA # CurB
  /\ Capable(heap, CurA)
  /\ Method(heap, CurA) = "FnAlways"
  /\ CurB \in NodeRefs
  /\ heap[CurB].cls = "Array"
  /\ Result = "true"

----------------------------------------------------------------------------
(* C9 *)

\* the flags a regular expression can be declared with
AllFlags == {"g", "m", "i", "y"}

Declared(fl) == {fl[i] : i \in 1..Len(fl)}

\* C9: two distinct regular expressions are equal exactly when their source
\* text is the same and every flag has the same setting in both.
RegexpsEqualByAllFlags ==
  (/\ Done
   /\ CurA # CurB
   /\ CurA \in LeafRefs /\ LeafHeap[CurA].cls = "RegExp"
   /\ CurB \in LeafRefs /\ LeafHeap[CurB].cls = "RegExp")
    => (Result = "true"
          <=> /\ LeafHeap[CurA].source = LeafHeap[CurB].source
              /\ Declared(LeafHeap[CurA].flags) \cap AllFlags
                   = Declared(LeafHeap[CurB].flags) \cap AllFlags)

----------------------------------------------------------------------------
(* C10 *)

\* C10: two distinct values both classified 'object' are equal exactly when
\* they have the same number of own enumerable keys, every such key of a is
\* an own property of b, and eq returned true for the values under each key.
ObjectsEqualByKeys ==
  (/\ Done
   /\ CurA # CurB
   /\ ~Capable(heap, CurA)
   /\ type(heap, CurA) = "object"
   /\ type(heap, CurB) = "object")
    => (Result = "true"
          <=> /\ Len(ObjectKeys(heap, CurA)) = Len(ObjectKeys(heap, CurB))
              /\ \A i \in 1..Len(ObjectKeys(heap, CurA)) :
                   /\ ObjectKeys(heap, CurA)[i] \in OwnKeys(heap, CurB)
                   /\ i <= Len(topLog)
                   /\ topLog[i] = "true")

\* two objects whose keys were inserted in different orders compared equal
ObjectsEqualByKeysWitness ==
  /\ Done
  /\ CurA # CurB
  /\ type(heap, CurA) = "object"
  /\ type(heap, CurB) = "object"
  /\ Len(ObjectKeys(heap, CurA)) = 2
  /\ ObjectKeys(heap, CurA) # ObjectKeys(heap, CurB)
  /\ Result = "true"

----------------------------------------------------------------------------
(* C11 *)

\* the closed set of tags
Tags ==
  {"null", "undefined", "NaN", "array", "arguments", "function", "string",
   "number", "boolean", "date", "regexp", "object", "unknown"}

\* the values eq is classifying: type(a), then type(b)
Operands == IF Classified THEN {Top.a, Top.b} ELSE {}

\* the tag the rules give when they are applied in the order null,
\* undefined, not-a-number, native tag, keyed object, unknown
TagByPriority(h, v) ==
  IF v = "null" THEN "null"
  ELSE IF v = "undefined" THEN "undefined"
  ELSE IF v = "NaN" THEN "NaN"
  ELSE IF v \in {"n0", "n1", "n2"} \/ (v \in Refs /\ Cell(h, v).cls = "Number")
    THEN "number"
  ELSE IF v \in {"s", "sa"} \/ (v \in Refs /\ Cell(h, v).cls = "String")
    THEN "string"
  ELSE IF v \in {"true", "false"} \/ (v \in Refs /\ Cell(h, v).cls = "Boolean")
    THEN "boolean"
  ELSE IF Cell(h, v).cls = "Array" THEN "array"
  ELSE IF Cell(h, v).cls = "Arguments" THEN "arguments"
  ELSE IF Cell(h, v).cls = "Function" THEN "function"
  ELSE IF Cell(h, v).cls = "Date" THEN "date"
  ELSE IF Cell(h, v).cls = "RegExp" THEN "regexp"
  ELSE IF Cell(h, v).cls = "Object"
    THEN (IF \E i \in 1..Len(Cell(h, v).props) : Cell(h, v).props[i].key = "callee"
          THEN "arguments" ELSE "object")
  ELSE "unknown"

\* C11: type gives every value exactly one tag of the closed set, the one
\* its rules give in the order null, undefined, not-a-number, native tag,
\* keyed object, unknown; NaN gets 'NaN' and never 'number'.
TypeTagsEveryValue ==
  \A v \in Operands :
    /\ type(heap, v) \in Tags
    /\ type(heap, v) = TagByPriority(heap, v)

\* what is left of C11 for the values that have a hasOwnProperty method
TypeTagsByPriority ==
  \A v \in Operands :
    type(heap, v) # "TypeError"
      => /\ type(heap, v) \in Tags
         /\ type(heap, v) = TagByPriority(heap, v)

----------------------------------------------------------------------------
(* C12 *)

\* the number primitives: 0, 1, 2 and NaN
NumberPrims == {"n0", "n1", "n2", "NaN"}

----------------------------------------------------------------------------
(* C13 *)

\* the call is an arrayEq or objectEq inside the f of its detectRecursion
Marked(f) == f.fn \in {"arrayEq", "objectEq"} /\ f.pc \in {"loop", "wait"}

\* call k of the stack is still inside its f after the step
StaysMarked(k) == k <= Len(stack') /\ Marked(stack'[k])

\* C13: a pair is released on every exit path. The step that marks a pair
\* appends it to the guard; while the call that marked it runs, the guard up
\* to its pair does not change; and the step that ends the call (the loop
\* finished, an inequality stopped it, or an exception passes) leaves the
\* guard as it was before the pair was marked. The guard is empty whenever no
\* eq call is running.
GuardReleased ==
  /\ [](stack = <<>> => seenObjects = <<>>)
  /\ [][\A k \in 1..Len(stack) :
          LET f == stack[k]
              n == FirstIndex(seenObjects, f.a, f.b, 1)
          IN /\ (~Marked(f) /\ StaysMarked(k))
                  => seenObjects' = Append(seenObjects, <<f.a, f.b>>)
             /\ Marked(f)
                  => /\ n > 0
                     /\ IF StaysMarked(k)
                        THEN SubSeq(seenObjects', 1, n) = SubSeq(seenObjects, 1, n)
                        ELSE seenObjects' = SubSeq(seenObjects, 1, n - 1)]_vars

\* an exception passed through the detectRecursion of a top-level comparison
\* of two arrays or two objects, and the guard is empty
GuardReleasedWitness ==
  /\ Done
  /\ Result = "throw"
  /\ CurA # CurB
  /\ ~Capable(heap, CurA)
  /\ type(heap, CurA) \in {"array", "object"}
  /\ type(heap, CurA) = type(heap, CurB)
  /\ seenObjects = <<>>

----------------------------------------------------------------------------
(* C14 *)

\* the pairs of the calls of st that are inside their f, outermost first
RECURSIVE Chain(_)
Chain(st) ==
  IF st = <<>> THEN <<>>
  ELSE IF Marked(Head(st)) THEN <<<<Head(st).a, Head(st).b>>>> \o Chain(Tail(st))
  ELSE Chain(Tail(st))

\* C14: the guard is at every instant the sequence, outermost first, of the
\* pairs of the arrayEq/objectEq calls on the stack whose content loop is
\* running; it holds no pair twice; a step adds or removes at most its last
\* entry; and a comparison of a pair that is present returns true without
\* running its loop and without changing the guard.
GuardIsChain ==
  /\ [](seenObjects = Chain(stack))
  /\ [](\A i, j \in 1..Len(seenObjects) : seenObjects[i] = seenObjects[j] => i = j)
  /\ [][/\ \/ seenObjects' = seenObjects
            \/ \E x \in Refs \X Refs : seenObjects' = Append(seenObjects, x)
            \/ /\ seenObjects # <<>>
               /\ seenObjects' = SubSeq(seenObjects, 1, Len(seenObjects) - 1)
         /\ (InComposite("start") /\ seen(seenObjects, Top.a, Top.b))
              => /\ ret' = "true"
                 /\ stack' = SubSeq(stack, 1, Len(stack) - 1)
                 /\ seenObjects' = seenObjects]_vars

\* a comparison nested in two others found its pair in the guard
GuardIsChainWitness ==
  /\ InComposite("start")
  /\ Len(seenObjects) = 2
  /\ seen(seenObjects, Top.a, Top.b)
  /\ seenObjects = Chain(stack)

----------------------------------------------------------------------------
(* C15 *)

\* eq(a, b), eq(b, c) and eq(a, c) have returned
TripleDone == phase = "t3" /\ stack = <<>>

\* no own property of the three values is non-enumerable
AllEnumerable ==
  \A r \in NodeRefs : \A i \in 1..Len(heap[r].props) : heap[r].props[i].enum

\* C15: for values without the delegate capability, if eq(a, b) and eq(b, c)
\* return true then eq(a, c) returns true.
EqTransitive ==
  (/\ TripleDone
   /\ \A r \in NodeRefs : ~Capable(heap, r)
   /\ results[1] = "true"
   /\ results[2] = "true")
    => results[3] = "true"

\* what is left of C15 when every own property is enumerable
EqTransitiveOnEnumerable ==
  (/\ TripleDone
   /\ AllEnumerable
   /\ results[1] = "true"
   /\ results[2] = "true")
    => results[3] = "true"

====
